---- MODULE Spec2Model ----
(***************************************************************************)
(* The connection lifecycle of the three Zerodha MCP clients:              *)
(*   agno    src/client/agno_client.py         (command line, agno agent)  *)
(*   gradio  src/client/agno_gradio_client.py  (web handlers, one shared   *)
(*                                              ZerodhaAssistant)          *)
(*   adk     src/client/google_adk_client.py   (command line, Google ADK)  *)
(* Every coroutine is a process whose pc names the await it is suspended   *)
(* at.  One action is the completion of that await followed by all the     *)
(* synchronous code up to (and including the call of) the next await, so   *)
(* the interleavings are those of one cooperative event loop.              *)
(* The libraries (sse_client, ClientSession, MCPTools, Agent, McpToolset,  *)
(* Runner) are the environment: each awaited call either succeeds or       *)
(* raises, and a request to the provider may stay unanswered; these        *)
(* failures are counted against MaxFaults.                                 *)
(***************************************************************************)
EXTENDS Integers, Sequences, FiniteSets, TLC

\* Bounds of the model.
MaxClients == 2
MaxHandlers == 2
MaxFaults == 2
MaxApiCalls == 3
MaxToolCalls == 11
MaxChatToolCalls == 2

VARIABLES
    variant,   \* which source file runs: "agno", "gradio" or "adk"
    driver,    \* "app": the file's own entry points; "api": a caller of MCPClient's methods
    cl,        \* the MCPClient objects
    asst,      \* the module-level ZerodhaAssistant (gradio)
    pr,        \* the coroutines
    adk,       \* exit_stack and McpToolset of google_adk_client.main
    cfg,       \* command line, environment and the URL main builds from them
    obs,       \* what has been observed of the protocol session's use
    faults     \* failures injected so far

vars == <<variant, driver, cl, asst, pr, adk, cfg, obs, faults>>

NoClient == 0
ClientIds == 1 .. MaxClients
Procs == 1 .. MaxHandlers

----------------------------------------------------------------------------
\* Texts.  A text is <<fixed part, interpolated part>>.

Text(fixed, detail) == <<fixed, detail>>
NoText == Text("", "")
ExcMsg == "str(e)"

AlreadyConnected == Text("Already connected!", "")
ConnectedOk == Text("Connected successfully! Ready to assist you.", "")
FailedToConnect == Text("Failed to connect: ", ExcMsg)
NotConnected == Text("Not connected!", "")
DisconnectedOk == Text("Disconnected successfully!", "")
DisconnectError == Text("Error during disconnect: ", ExcMsg)
InvalidPort == Text("Invalid port number!", "")
ConnectionErrorText == Text("Connection error: ", ExcMsg)
ChatNotConnected == Text("Not connected to MCP server! Please connect first.", "")
ChatError == Text("Error: ", ExcMsg)
AnErrorOccurred == Text("An error occurred: ", ExcMsg)
AdkRunnerError == Text("[bold red]Error: ", ExcMsg)
ResponseText == Text("", "response.content")
ExitingClient == Text("Exiting client.", "")

ErrorTexts == {FailedToConnect, DisconnectError, InvalidPort, ConnectionErrorText,
               ChatError, AnErrorOccurred, AdkRunnerError}

----------------------------------------------------------------------------
\* User input: a string is a sequence of characters.

Lower(ch) ==
    CASE ch = "Q" -> "q"
      [] ch = "U" -> "u"
      [] ch = "I" -> "i"
      [] ch = "T" -> "t"
      [] ch = "H" -> "h"
      [] OTHER -> ch

LowerStr(s) == [i \in 1 .. Len(s) |-> Lower(s[i])]

IsQuit(s) == LowerStr(s) = <<"q", "u", "i", "t">>

Queries == { <<"q", "u", "i", "t">>, <<"Q", "U", "I", "T">>, <<"Q", "u", "i", "T">>,
             <<"h", "i">>, <<"q", "u", "i", "t", "s">> }

Digits == {"0", "1", "8"}

\* int(port) succeeds on a non-empty string of digits and raises ValueError otherwise.
IsInt(s) == Len(s) > 0 /\ \A i \in 1 .. Len(s) : s[i] \in Digits

PortInputs == { <<"8", "0", "0", "1">>, <<"0">>, <<>>, <<"8", "x">> }

----------------------------------------------------------------------------
\* The URL of the provider.  An optional value (an argparse attribute, an
\* environment variable) is <<>> when absent (None) and <<v>> when given.

DecDigits == <<"0", "1", "2", "3", "4", "5", "6", "7", "8", "9">>

\* int(s) for a string of decimal digits
RECURSIVE ParseInt(_)
ParseInt(s) ==
    IF s = <<>> THEN 0
    ELSE 10 * ParseInt(SubSeq(s, 1, Len(s) - 1))
           + ((CHOOSE d \in 1 .. 10 : DecDigits[d] = s[Len(s)]) - 1)

\* str(n) for n >= 0, as the f-string formats the port
RECURSIVE StrOfNat(_)
StrOfNat(n) ==
    IF n < 10 THEN <<DecDigits[n + 1]>>
    ELSE Append(StrOfNat(n \div 10), DecDigits[(n % 10) + 1])

\* os.environ.get(name, default)
EnvGet(o, default) == IF o = <<>> THEN default ELSE o[1]

\* mcp_host = args.host or os.environ.get("MCP_HOST", "localhost")
\* (`or` takes its right side when the left is None or the empty string)
McpHost(c) ==
    IF c.argHost # <<>> /\ c.argHost[1] # "" THEN c.argHost[1]
    ELSE EnvGet(c.envHost, "localhost")

\* mcp_port = args.port or int(os.environ.get("MCP_PORT", "8001"))
\* (`or` takes its right side when the left is None or 0)
McpPort(c) ==
    IF c.argPort # <<>> /\ c.argPort[1] # 0 THEN c.argPort[1]
    ELSE ParseInt(EnvGet(c.envPort, <<"8", "0", "0", "1">>))

\* mcp_url = f"http://{mcp_host}:{mcp_port}/sse"
McpUrl(c) == <<"http://", McpHost(c), ":", StrOfNat(McpPort(c)), "/sse">>

\* main reads the command line and the environment and builds the URL.
BuildUrl(c) == [c EXCEPT !.url = McpUrl(c)]

\* The command lines and environments main is run with.
NoCfg == [argHost |-> <<>>, argPort |-> <<>>, envHost |-> <<>>, envPort |-> <<>>, url |-> <<>>]

CfgInputs ==
    [ argHost : {<<>>, <<"">>, <<"kite.example">>},
      argPort : {<<>>, <<0>>, <<9000>>},
      envHost : {<<>>, <<"env.example">>},
      envPort : {<<>>, << <<"8", "0", "8", "0">> >>},
      url : {<<>>} ]

----------------------------------------------------------------------------
\* MCPClient objects.

\* MCPClient.__init__: the gradio class sets both contexts to None, the agno
\* class leaves the attributes undefined until connect_to_sse_server assigns them.
FreshClient(v) ==
    [ made |-> TRUE,
      streamsCtx |-> IF v = "gradio" THEN "none" ELSE "unset",
      sessionCtx |-> IF v = "gradio" THEN "none" ELSE "unset",
      session |-> "none",
      sse |-> "none",
      stream |-> "none",
      sess |-> "none",
      init |-> FALSE,
      streamCloses |-> 0,
      sessCloses |-> 0,
      log |-> <<>> ]

Unmade == [FreshClient("gradio") EXCEPT !.made = FALSE]

\* MCPClient(): at most MaxClients objects are constructed in a run.
FreeIds == {c \in ClientIds : ~cl[c].made}
NextId == CHOOSE c \in FreeIds : \A d \in FreeIds : c <= d

\* The connection is Ready: initialize() completed and no close was begun.
Ready(k) == k.sess = "open" /\ k.init /\ k.sessCloses = 0 /\ k.streamCloses = 0 /\ k.stream = "open"

----------------------------------------------------------------------------
\* Coroutines.

IdleProc ==
    [ kind |-> "idle", pc |-> "idle", self |-> NoClient, mine |-> NoClient,
      ret |-> "none", step |-> 0, agent |-> NoClient, exc |-> "none",
      turn |-> "none", calls |-> 0, refused |-> FALSE, quit |-> FALSE,
      disc |-> FALSE, text |-> NoText, hist |-> <<>>, hung |-> FALSE,
      tools |-> <<>>, alone |-> TRUE ]

St == [cl |-> cl, asst |-> asst, pr |-> pr, obs |-> obs]

Commit(T) ==
    /\ cl' = T.cl
    /\ asst' = T.asst
    /\ pr' = T.pr
    /\ obs' = T.obs

Fault(ok) ==
    IF ok THEN faults' = faults ELSE faults < MaxFaults /\ faults' = faults + 1

\* MCPClient() gives the object c.
Construct(S, c) ==
    [S EXCEPT !.cl[c] = FreshClient(variant)]

\* A call_tool / list_tools request is written to the session of client c.
IssueCall(S, c) ==
    [S EXCEPT !.obs.notReady = @ \/ ~Ready(S.cl[c])]

\* What the handler that returned last gave back: its kind, its text, the
\* MCPClient it had created (if any) and how its turn ended (if it ran one).
NoResult ==
    [kind |-> "idle", text |-> NoText, mine |-> NoClient, turn |-> "none", alone |-> TRUE]

\* A handler returns text to its caller; its coroutine is gone.
Return(S, p, text) ==
    [S EXCEPT !.obs.last = [kind |-> S.pr[p].kind, text |-> text, mine |-> S.pr[p].mine,
                            turn |-> S.pr[p].turn, alone |-> S.pr[p].alone],
              !.pr[p] = IdleProc]

\* Idle coroutine slots are interchangeable: a new handler takes the first.
FirstIdle(p) == pr[p].pc = "idle" /\ \A q \in Procs : q < p => pr[q].pc # "idle"

Raised(S, p) == [S EXCEPT !.pr[p].pc = "crashed"]

\* The caller of MCPClient's methods gets the call's outcome.
ApiDone(S, p, op, outcome) ==
    [S EXCEPT !.pr[p].pc = "done", !.pr[p].hist = Append(@, <<op, outcome>>),
              !.pr[p].ret = "none", !.pr[p].step = 0]

----------------------------------------------------------------------------
\* MCPClient.cleanup and what runs after it.

\* cleanup with its two `if` blocks exchanged.
CleanupOrderSwapped == <<"stream", "session">>

\* The order in which cleanup closes the two contexts.
CleanupOrder == <<"session", "stream">>

CtxOf(k, what) == IF what = "session" THEN k.sessionCtx ELSE k.streamsCtx

\* __aexit__(None, None, None) is called on the i-th context of client c.
InvokeClose(S, p, c, i) ==
    LET what == CleanupOrder[i]
        entry == [what |-> what, sessOpened |-> S.cl[c].sess # "none"]
    IN  [S EXCEPT !.cl[c].sessCloses = IF what = "session" THEN @ + 1 ELSE @,
                  !.cl[c].streamCloses = IF what = "stream" THEN @ + 1 ELSE @,
                  !.cl[c].log = Append(@, entry),
                  !.pr[p].pc = "cleanup", !.pr[p].step = i, !.pr[p].self = c]

\* cleanup() from its i-th `if` on, up to the next await: pc becomes "cleanup"
\* (suspended in an __aexit__), "cl_returned" or "cl_raised".
RECURSIVE CleanupFrom(_, _, _, _)
CleanupFrom(S, p, c, i) ==
    IF i > Len(CleanupOrder)
    THEN [S EXCEPT !.cl[c].session = IF variant = "gradio" THEN "none" ELSE @,
                   !.pr[p].pc = "cl_returned"]
    ELSE LET ctx == CtxOf(S.cl[c], CleanupOrder[i])
         IN  IF ctx = "unset" THEN [S EXCEPT !.pr[p].pc = "cl_raised"]
             ELSE IF ctx = "set" THEN InvokeClose(S, p, c, i)
             ELSE CleanupFrom(S, p, c, i + 1)

\* ZerodhaAssistant.connect, the tail of its except block.
ConnectFailed(S, p) ==
    Return([S EXCEPT !.asst = [client |-> NoClient, agent |-> NoClient, connected |-> FALSE, tools |-> <<>>]],
           p, FailedToConnect)

\* ZerodhaAssistant.disconnect, after client.disconnect() returned.
DisconnectDone(S, p) ==
    Return([S EXCEPT !.asst = [client |-> NoClient, agent |-> NoClient, connected |-> FALSE, tools |-> <<>>]],
           p, DisconnectedOk)

\* main returns, or the pending interrupt leaves it.
MainEnd(S, p) ==
    [S EXCEPT !.pr[p].pc = IF S.pr[p].exc = "none" THEN "done" ELSE "crashed"]

\* What follows a cleanup() that was called by disconnect().
AfterDisconnect(S, p) ==
    LET ret == S.pr[p].ret
        ok == S.pr[p].pc = "cl_returned"
    IN  IF S.pr[p].pc = "cleanup" THEN S
        ELSE CASE ret = "conn_exc" ->
                    IF ok THEN ConnectFailed(S, p) ELSE Return(S, p, ConnectionErrorText)
               [] ret = "disc" ->
                    IF ok THEN DisconnectDone(S, p) ELSE Return(S, p, DisconnectError)
               [] ret = "finally" ->
                    IF ok THEN MainEnd(S, p) ELSE Raised(S, p)
               [] OTHER ->
                    ApiDone(S, p, "disconnect", IF ok THEN "returned" ELSE "raised")

\* The except block of ZerodhaAssistant.connect.
ConnectExcept(S, p) ==
    IF S.asst.client # NoClient
    THEN AfterDisconnect(
             CleanupFrom([S EXCEPT !.pr[p].ret = "conn_exc", !.pr[p].self = S.asst.client],
                         p, S.asst.client, 1), p)
    ELSE ConnectFailed(S, p)

\* An exception leaves connect_to_sse_server.
SseRaised(S, p) ==
    LET T == [S EXCEPT !.cl[S.pr[p].mine].sse = "raised"]
    IN  IF driver = "api" THEN ApiDone(T, p, "connect", "raised")
        ELSE IF variant = "gradio" THEN ConnectExcept(T, p)
        ELSE Raised(T, p)

\* What follows a step of cleanup(), whoever called it.
AfterCleanup(S, p) ==
    IF S.pr[p].pc # "cleanup" /\ S.pr[p].ret = "sse" THEN SseRaised(S, p)
    ELSE AfterDisconnect(S, p)

Cleanup(S, p, c, ret) ==
    AfterCleanup(CleanupFrom([S EXCEPT !.pr[p].ret = ret, !.pr[p].self = c], p, c, 1), p)

\* An exception is raised inside connect_to_sse_server: the gradio class
\* catches it, cleans up and re-raises; the agno class has no try.
SseFailed(S, p) ==
    IF variant = "gradio" THEN Cleanup(S, p, S.pr[p].self, "sse") ELSE SseRaised(S, p)

----------------------------------------------------------------------------
\* MCPClient.connect_to_sse_server.

\* The call: the stream context is stored and its __aenter__ awaited.
ConnectToSse(S, p, c) ==
    [S EXCEPT !.cl[c].streamsCtx = "set", !.cl[c].sse = "running",
              !.pr[p].self = c, !.pr[p].mine = c,
              !.pr[p].pc = "enter_stream"]

\* ZerodhaAssistant.connect after connect_to_sse_server returned: the tools
\* are bound to self.client.session, read now, and their initialize() awaited.
\* self.client may be None by now (AttributeError), and MCPTools refuses a
\* session of None (ValueError): both land in connect's except block.
BindTools(S, p) ==
    LET b == S.asst.client
    IN  IF b = NoClient \/ S.cl[b].session = "none"
        THEN ConnectExcept(S, p)
        ELSE [IssueCall(S, b) EXCEPT !.pr[p].agent = b, !.pr[p].pc = "tools_init"]

\* connect_to_sse_server returns to its caller.
SseReturned(S, p) ==
    LET c == S.pr[p].self
        T == [S EXCEPT !.cl[c].sse = "returned"]
    IN  IF driver = "api" THEN ApiDone(T, p, "connect", "returned")
        ELSE IF variant = "gradio" THEN BindTools(T, p)
        ELSE [IssueCall(T, c) EXCEPT !.pr[p].pc = "list_tools2"]

\* streams = await self._streams_context.__aenter__()
AwaitEnterStream(p) ==
    /\ pr[p].pc = "enter_stream"
    /\ \E ok \in BOOLEAN :
         /\ Fault(ok)
         /\ LET c == pr[p].self
            IN  Commit(IF ok
                       THEN [St EXCEPT !.cl[c].stream = "open", !.cl[c].sessionCtx = "set",
                                       !.pr[p].pc = "enter_session"]
                       ELSE SseFailed(St, p))
    /\ UNCHANGED <<variant, driver, cfg, adk>>

\* self.session = await self._session_context.__aenter__()
AwaitEnterSession(p) ==
    /\ pr[p].pc = "enter_session"
    /\ \E ok \in BOOLEAN :
         /\ Fault(ok)
         /\ LET c == pr[p].self
            IN  Commit(IF ok
                       THEN [St EXCEPT !.cl[c].sess = "open", !.cl[c].session = "set",
                                       !.pr[p].pc = "initialize"]
                       ELSE SseFailed(St, p))
    /\ UNCHANGED <<variant, driver, cfg, adk>>

\* await self.session.initialize(), then list_tools() is called on self.session
AwaitInitialize(p) ==
    /\ pr[p].pc = "initialize" /\ ~pr[p].hung
    /\ \E ok \in BOOLEAN :
         /\ Fault(ok)
         /\ LET c == pr[p].self
                T == [St EXCEPT !.cl[c].init = TRUE]
            IN  Commit(IF ~ok THEN SseFailed(St, p)
                       ELSE IF T.cl[c].session = "none" THEN SseFailed(T, p)
                       ELSE [IssueCall(T, c) EXCEPT !.pr[p].pc = "list_tools"])
    /\ UNCHANGED <<variant, driver, cfg, adk>>

\* await self.session.list_tools()
AwaitListTools(p) ==
    /\ pr[p].pc = "list_tools" /\ ~pr[p].hung
    /\ \E ok \in BOOLEAN :
         /\ Fault(ok)
         /\ Commit(IF ok THEN SseReturned(St, p) ELSE SseFailed(St, p))
    /\ UNCHANGED <<variant, driver, cfg, adk>>

\* await ctx.__aexit__(None, None, None) inside cleanup().  A close that
\* raises leaves the resource as it was.
AwaitClose(p) ==
    /\ pr[p].pc = "cleanup"
    /\ \E ok \in BOOLEAN :
         /\ Fault(ok)
         /\ LET c == pr[p].self
                i == pr[p].step
                what == CleanupOrder[i]
                T == [St EXCEPT !.cl[c].sess = IF what = "session" /\ @ = "open" THEN "closed" ELSE @,
                                !.cl[c].stream = IF what = "stream" /\ @ = "open" THEN "closed" ELSE @]
            IN  Commit(AfterCleanup(IF ok THEN CleanupFrom(T, p, c, i + 1)
                                    ELSE [St EXCEPT !.pr[p].pc = "cl_raised"], p))
    /\ UNCHANGED <<variant, driver, cfg, adk>>

----------------------------------------------------------------------------
\* agno_gradio_client.py: the handlers and the ZerodhaAssistant.

Slot(p, kind) == [IdleProc EXCEPT !.kind = kind]

\* The event loop starts a handler of the given kind in slot p.  alone records
\* whether the handler has had the loop to itself: it is cleared, for both,
\* when a handler starts while another has not returned.
Begin(S, p, kind) ==
    [S EXCEPT !.pr = [q \in Procs |->
        IF q = p
        THEN [Slot(p, kind) EXCEPT !.alone = \A r \in Procs \ {p} : S.pr[r].kind = "idle"]
        ELSE IF S.pr[q].kind = "idle" THEN S.pr[q]
        ELSE [S.pr[q] EXCEPT !.alone = FALSE]]]

\* connect_handler with a ZerodhaAssistant.connect that lacks the
\* `if self.connected` check.
ConnectHandlerUnguarded(p) ==
    /\ variant = "gradio" /\ driver = "app"
    /\ FirstIdle(p)
    /\ \E port \in PortInputs :
         LET S == Begin(St, p, "connect")
         IN  IF ~IsInt(port) THEN Commit(Return(S, p, InvalidPort))
             ELSE /\ FreeIds # {}
                  /\ Commit(ConnectToSse([Construct(S, NextId) EXCEPT !.asst.client = NextId],
                                      p, NextId))
    /\ UNCHANGED <<variant, driver, cfg, adk, faults>>

\* connect_handler, and ZerodhaAssistant.connect up to its first await.
ConnectHandler(p) ==
    /\ variant = "gradio" /\ driver = "app"
    /\ FirstIdle(p)
    /\ \E port \in PortInputs :
         LET S == Begin(St, p, "connect")
         IN  IF ~IsInt(port) THEN Commit(Return(S, p, InvalidPort))
             ELSE IF asst.connected THEN Commit(Return(S, p, AlreadyConnected))
             ELSE /\ FreeIds # {}
                  /\ Commit(ConnectToSse([Construct(S, NextId) EXCEPT !.asst.client = NextId],
                                      p, NextId))
    /\ UNCHANGED <<variant, driver, cfg, adk, faults>>

\* disconnect_handler with a ZerodhaAssistant.disconnect that lacks the
\* `if not self.connected` check.
DisconnectHandlerUnguarded(p) ==
    /\ variant = "gradio" /\ driver = "app"
    /\ FirstIdle(p)
    /\ LET S == Begin(St, p, "disconnect")
       IN  Commit(IF asst.client # NoClient THEN Cleanup(S, p, asst.client, "disc")
                  ELSE DisconnectDone(S, p))
    /\ UNCHANGED <<variant, driver, cfg, adk, faults>>

\* disconnect_handler, and ZerodhaAssistant.disconnect up to its first await.
DisconnectHandler(p) ==
    /\ variant = "gradio" /\ driver = "app"
    /\ FirstIdle(p)
    /\ LET S == Begin(St, p, "disconnect")
       IN  Commit(IF ~asst.connected THEN Return(S, p, NotConnected)
                  ELSE IF asst.client # NoClient THEN Cleanup(S, p, asst.client, "disc")
                  ELSE DisconnectDone(S, p))
    /\ UNCHANGED <<variant, driver, cfg, adk, faults>>

\* chat_handler up to its await of assistant.agent.arun.
ChatHandler(p) ==
    /\ variant = "gradio" /\ driver = "app"
    /\ FirstIdle(p)
    /\ LET S == Begin(St, p, "chat")
       IN  Commit(IF ~asst.connected \/ asst.agent = NoClient
                  THEN Return(S, p, ChatNotConnected)
                  ELSE [S EXCEPT !.pr[p].agent = asst.agent, !.pr[p].turn = "running",
                                 !.pr[p].pc = "arun"])
    /\ UNCHANGED <<variant, driver, cfg, adk, faults>>

----------------------------------------------------------------------------
\* agno_client.py: main.

\* main up to the first await of connect_to_sse_server.
MainStart(p) ==
    /\ variant = "agno" /\ driver = "app" /\ p = 1
    /\ pr[p].pc = "idle"
    /\ FreeIds # {}
    /\ cfg' = BuildUrl(cfg)
    /\ Commit(ConnectToSse([Construct(St, NextId) EXCEPT !.pr[p].kind = "main"], p, NextId))
    /\ UNCHANGED <<variant, driver, adk, faults>>

\* response = await mcp_client.session.list_tools(), then MCPTools(session=...)
\* and the call of its initialize()
AwaitListTools2(p) ==
    /\ pr[p].pc = "list_tools2" /\ ~pr[p].hung
    /\ \E ok \in BOOLEAN :
         /\ Fault(ok)
         /\ LET c == pr[p].mine
            IN  Commit(IF ok THEN [IssueCall(St, c) EXCEPT !.pr[p].agent = c,
                                                          !.pr[p].pc = "tools_init"]
                       ELSE Raised(St, p))
    /\ UNCHANGED <<variant, driver, cfg, adk>>

\* await mcp_tools.initialize(), then Agent(...): either may raise.
AwaitToolsInit(p) ==
    /\ pr[p].pc = "tools_init" /\ ~pr[p].hung
    /\ \E ok \in BOOLEAN :
         /\ Fault(ok)
         /\ Commit(IF variant = "gradio"
                   THEN IF ok
                        THEN Return([St EXCEPT !.asst.agent = pr[p].agent,
                                               !.asst.tools = <<"mcp_tools">>,
                                               !.asst.connected = TRUE], p, ConnectedOk)
                        ELSE ConnectExcept(St, p)
                   ELSE IF ok THEN [St EXCEPT !.pr[p].tools = <<"mcp_tools">>,
                                              !.pr[p].pc = "prompt"]
                        ELSE Raised(St, p))
    /\ UNCHANGED <<variant, driver, cfg, adk>>

\* The finally block of main.
MainFinally(S, p) ==
    IF variant = "agno"
    THEN Cleanup([S EXCEPT !.pr[p].disc = TRUE], p, S.pr[p].mine, "finally")
    ELSE [S EXCEPT !.pr[p].pc = "aclose"]

\* except Exception as e: console.print(An error occurred), then finally.
MainExcept(S, p) ==
    MainFinally([S EXCEPT !.pr[p].text = AnErrorOccurred], p)

\* Prompt.ask returns the user's line, or raises EOFError at end of input.
Prompt(p) ==
    /\ pr[p].pc = "prompt"
    /\ \/ \E q \in Queries :
            Commit(IF IsQuit(q) THEN MainFinally([St EXCEPT !.pr[p].quit = TRUE], p)
                   ELSE [St EXCEPT !.pr[p].turn = "running", !.pr[p].calls = 0,
                                   !.pr[p].refused = FALSE,
                                   !.pr[p].pc = IF variant = "agno" THEN "arun" ELSE "run"])
       \/ Commit(IF variant = "agno" THEN MainExcept(St, p) ELSE MainFinally(St, p))
    /\ UNCHANGED <<variant, driver, cfg, adk, faults>>

\* await agent.arun(...)
AwaitArun(p) ==
    /\ pr[p].pc = "arun" /\ ~pr[p].hung
    /\ \E ok \in BOOLEAN :
         /\ Fault(ok)
         /\ LET T == [St EXCEPT !.pr[p].turn = IF ok THEN "ok" ELSE "raised"]
            IN  Commit(IF variant = "gradio"
                       THEN Return(T, p, IF ok THEN ResponseText ELSE ChatError)
                       ELSE IF ok THEN [St EXCEPT !.pr[p].pc = "consume"]
                            ELSE MainExcept(T, p))
    /\ UNCHANGED <<variant, driver, cfg, adk>>

\* async for response in result: console.print(response.content)
AwaitConsume(p) ==
    /\ pr[p].pc = "consume" /\ ~pr[p].hung
    /\ \E ok \in BOOLEAN :
         /\ Fault(ok)
         /\ LET T == [St EXCEPT !.pr[p].turn = IF ok THEN "ok" ELSE "raised"]
            IN  Commit(IF ok THEN [T EXCEPT !.pr[p].text = ResponseText, !.pr[p].pc = "prompt"]
                       ELSE MainExcept(T, p))
    /\ UNCHANGED <<variant, driver, cfg, adk>>

\* Agent(..., tool_call_limit=10, ...)
ToolCallLimit == 10

\* The agent, while a turn runs, requests a tool call.  The agno Agent was
\* given tool_call_limit: it forwards the request over the session its tools
\* hold while fewer than that many were forwarded in this run, and refuses it
\* otherwise.  The ADK LlmAgent was given no limit: every request goes to the
\* toolset's connection.  The requests of one turn are followed up to
\* MaxToolCalls (MaxChatToolCalls in a gradio handler).
ToolCall(p) ==
    /\ ~pr[p].hung
    /\ pr[p].calls + (IF pr[p].refused THEN 1 ELSE 0)
          < (IF variant = "gradio" THEN MaxChatToolCalls ELSE MaxToolCalls)
    /\ \/ /\ pr[p].pc \in {"arun", "consume"}
          /\ Commit(IF pr[p].calls < ToolCallLimit
                    THEN [IssueCall(St, pr[p].agent) EXCEPT !.pr[p].calls = @ + 1]
                    ELSE [St EXCEPT !.pr[p].refused = TRUE])
       \/ /\ pr[p].pc = "run" /\ adk.toolset = "open"
          /\ Commit([St EXCEPT !.pr[p].calls = @ + 1])
    /\ UNCHANGED <<variant, driver, cfg, adk, faults>>

\* The pcs at which a coroutine waits for the provider's answer to a request
\* written to the session: initialize, list_tools, and (inside MCPTools
\* .initialize) list_tools again.
RequestPcs == {"initialize", "list_tools", "list_tools2", "tools_init"}

\* The provider never answers the request the coroutine waits on (during a
\* turn: the call_tool the agent issued).  The session was built as
\* ClientSession(*streams), without a read timeout, so the request waits
\* without limit: nothing completes the await any more.
NoAnswer(p) ==
    /\ variant \in {"agno", "gradio"}
    /\ ~pr[p].hung
    /\ \/ pr[p].pc \in RequestPcs
       \/ pr[p].pc \in {"arun", "consume"} /\ pr[p].calls > 0
    /\ Fault(FALSE)
    /\ Commit([St EXCEPT !.pr[p].hung = TRUE])
    /\ UNCHANGED <<variant, driver, cfg, adk>>

----------------------------------------------------------------------------
\* google_adk_client.py: main.

Range(f) == {f[i] : i \in DOMAIN f}

\* The tools the protocol session reports for the connected provider.
SessionTools == {"get_holdings", "place_order"}

\* The tool names an entry of an agent's tools=[...] list gives the agent:
\* MCPTools and McpToolset register the tools their session lists, under the
\* names it reports; search_agent_tool is AgentTool(agent=search_agent), named
\* after that agent.
ToolNames(t) ==
    IF t \in {"mcp_tools", "tools1"} THEN SessionTools ELSE {"SearchAgent"}

\* The tools an agent built with tools=ts can call.
AgentTools(ts) == UNION {ToolNames(ts[i]) : i \in DOMAIN ts}

\* main up to its first await: the exit stack is created empty (nothing is
\* ever pushed on it), the McpToolset is constructed without connecting.
AdkStart(p) ==
    /\ variant = "adk" /\ driver = "app" /\ p = 1
    /\ pr[p].pc = "idle"
    /\ cfg' = BuildUrl(cfg)
    /\ adk' = [stack |-> <<>>, toolset |-> "new"]
    /\ Commit([St EXCEPT !.pr[p].kind = "main", !.pr[p].pc = "create_session",
                         !.pr[p].tools = <<"tools1", "search_agent_tool">>])
    /\ UNCHANGED <<variant, driver, faults>>

\* session = await session_service.create_session(...)
AwaitCreateSession(p) ==
    /\ pr[p].pc = "create_session"
    /\ \E ok \in BOOLEAN :
         /\ Fault(ok)
         /\ Commit(IF ok THEN [St EXCEPT !.pr[p].pc = "prompt"] ELSE MainFinally(St, p))
    /\ UNCHANGED <<variant, driver, cfg, adk>>

\* While run_async is consumed the toolset opens its connection to the
\* provider, on the first request for its tools.
AdkToolsetConnect(p) ==
    /\ pr[p].pc = "run"
    /\ adk.toolset = "new"
    /\ adk' = [adk EXCEPT !.toolset = "open"]
    /\ UNCHANGED <<variant, driver, cfg, cl, asst, pr, obs, faults>>

\* async for event in runner.run_async(...), in its own try.
AwaitRun(p) ==
    /\ pr[p].pc = "run"
    /\ \E ok \in BOOLEAN :
         /\ Fault(ok)
         /\ Commit([St EXCEPT !.pr[p].turn = IF ok THEN "ok" ELSE "raised",
                              !.pr[p].text = IF ok THEN ResponseText ELSE AdkRunnerError,
                              !.pr[p].pc = "prompt"])
    /\ UNCHANGED <<variant, driver, cfg, adk>>

\* AsyncExitStack.aclose(): closes what was pushed on the stack.
Aclose(a) ==
    [a EXCEPT !.toolset = IF "toolset" \in Range(a.stack) /\ @ = "open" THEN "closed" ELSE @,
              !.stack = <<>>]

\* finally: await exit_stack.aclose(), then the closing messages.
AwaitAclose(p) ==
    /\ pr[p].pc = "aclose"
    /\ adk' = Aclose(adk)
    /\ Commit(MainEnd([St EXCEPT !.pr[p].text = ExitingClient], p))
    /\ UNCHANGED <<variant, driver, cfg, faults>>

----------------------------------------------------------------------------
\* An external interrupt reaches main (asyncio.run cancels it at its await).

SetupPcs == {"enter_stream", "enter_session", "initialize", "list_tools", "list_tools2",
             "tools_init"}
TryPcs == {"prompt", "arun", "consume", "create_session", "run"}
FinallyPcs == {"cleanup", "aclose"}

Interrupt(p) ==
    /\ pr[p].kind = "main"
    /\ pr[p].exc = "none"
    /\ pr[p].pc \in SetupPcs \cup TryPcs \cup FinallyPcs
    /\ Fault(FALSE)
    /\ LET T == [St EXCEPT !.pr[p].exc = "interrupt", !.pr[p].hung = FALSE,
                           !.pr[p].turn = IF @ = "running" THEN "interrupted" ELSE @]
       IN  Commit(IF pr[p].pc \in TryPcs THEN MainFinally(T, p) ELSE Raised(T, p))
    /\ UNCHANGED <<variant, driver, cfg, adk>>

----------------------------------------------------------------------------
\* A caller of MCPClient's two public methods, one call after the other.

HasConnect(h) == \E i \in DOMAIN h : h[i][1] = "connect"

\* client = MCPClient() on first use
ApiClient(S, p) ==
    IF S.pr[p].mine # NoClient THEN S
    ELSE [Construct(S, NextId) EXCEPT !.pr[p].mine = NextId, !.pr[p].kind = "api"]

ApiConnect(p) ==
    /\ driver = "api" /\ p = 1
    /\ pr[p].pc \in {"idle", "done"}
    /\ Len(pr[p].hist) < MaxApiCalls /\ ~HasConnect(pr[p].hist)
    /\ LET S == ApiClient(St, p)
       IN  Commit(ConnectToSse(S, p, S.pr[p].mine))
    /\ UNCHANGED <<variant, driver, cfg, adk, faults>>

ApiDisconnect(p) ==
    /\ driver = "api" /\ p = 1
    /\ pr[p].pc \in {"idle", "done"}
    /\ Len(pr[p].hist) < MaxApiCalls
    /\ LET S == ApiClient(St, p)
       IN  Commit(Cleanup(S, p, S.pr[p].mine, "api"))
    /\ UNCHANGED <<variant, driver, cfg, adk, faults>>

----------------------------------------------------------------------------
Init ==
    /\ variant \in {"agno", "gradio", "adk"}
    /\ driver \in {"app", "api"}
    /\ variant = "adk" => driver = "app"
    /\ cl = [c \in ClientIds |-> Unmade]
    /\ asst = [client |-> NoClient, agent |-> NoClient, connected |-> FALSE, tools |-> <<>>]
    /\ pr = [p \in Procs |-> IdleProc]
    /\ adk = [stack |-> <<>>, toolset |-> "none"]
    /\ cfg \in (IF variant \in {"agno", "adk"} /\ driver = "app" THEN CfgInputs ELSE {NoCfg})
    /\ obs = [notReady |-> FALSE, last |-> NoResult]
    /\ faults = 0

Next ==
    \E p \in Procs :
        \/ ConnectHandler(p)
        \/ DisconnectHandler(p)
        \/ ChatHandler(p)
        \/ MainStart(p)
        \/ AdkStart(p)
        \/ ApiConnect(p)
        \/ ApiDisconnect(p)
        \/ AwaitEnterStream(p)
        \/ AwaitEnterSession(p)
        \/ AwaitInitialize(p)
        \/ AwaitListTools(p)
        \/ AwaitListTools2(p)
        \/ AwaitToolsInit(p)
        \/ AwaitClose(p)
        \/ Prompt(p)
        \/ AwaitArun(p)
        \/ AwaitConsume(p)
        \/ ToolCall(p)
        \/ NoAnswer(p)
        \/ AwaitCreateSession(p)
        \/ AdkToolsetConnect(p)
        \/ AwaitRun(p)
        \/ AwaitAclose(p)
        \/ Interrupt(p)

Spec == Init /\ [][Next]_vars

----------------------------------------------------------------------------
\* Properties.

Mains == {p \in Procs : pr[p].kind = "main"}
Ended(p) == pr[p].pc \in {"done", "crashed"}
Open(c) == cl[c].stream = "open" \/ cl[c].sess = "open"

\* C1: when an exception leaves connect_to_sse_server, the stream and the
\* session that this attempt opened have been closed: none is left open.
C1_FailedConnectClosesAll ==
    [][\A c \in ClientIds :
          (cl[c].sse = "running" /\ cl'[c].sse = "raised")
              => (cl'[c].stream # "open" /\ cl'[c].sess # "open")]_vars

\* C2: (gradio) when a ZerodhaAssistant.connect that failed at one step (no
\* close failing) has returned, the stream context and the session context of
\* the MCPClient it created were each closed at most once, and the stream, if
\* it was opened, exactly once.
C2_FailedConnectClosesOnce ==
    (variant = "gradio" /\ obs.last.kind = "connect" /\ obs.last.mine # NoClient
        /\ faults = 1
        /\ obs.last.text \in {FailedToConnect, ConnectionErrorText})
    => LET k == cl[obs.last.mine]
       IN  /\ k.streamCloses <= 1
           /\ k.sessCloses <= 1
           /\ k.stream # "none" => (k.streamCloses = 1 /\ k.stream = "closed")

\* C3: (agno main) once connect_to_sse_server has returned, main does not end,
\* by whatever path, without mcp_client.disconnect() having been run.
C3_DisconnectOnEveryExit ==
    \A p \in Mains :
        (variant = "agno" /\ Ended(p) /\ cl[pr[p].mine].sse = "returned") => pr[p].disc

\* C4: after a successful connect, two disconnect() calls in a row (none of
\* the closes failing) both return, and each context was closed exactly once.
C4_DisconnectTwice ==
    \A p \in Procs :
        (/\ pr[p].kind = "api" /\ faults = 0 /\ Len(pr[p].hist) = 3
         /\ pr[p].hist[1] = <<"connect", "returned">>
         /\ pr[p].hist[2][1] = "disconnect" /\ pr[p].hist[3][1] = "disconnect")
        => /\ pr[p].hist[2][2] = "returned" /\ pr[p].hist[3][2] = "returned"
           /\ cl[pr[p].mine].sessCloses = 1
           /\ cl[pr[p].mine].streamCloses = 1

\* C5: (gradio) no call_tool or list_tools is ever written to a session that
\* is not Ready (initialize() completed, cleanup not begun), in any
\* interleaving of the handlers, even when no awaited call fails.
C5_CallsOnlyWhenReady ==
    (variant = "gradio" /\ driver = "app" /\ faults = 0) => ~obs.notReady

\* C6: (gradio) the assistant has at most one open stream and one open
\* session, and every open stream belongs to the assistant's current client.
C6_OneConnection ==
    (variant = "gradio" /\ driver = "app")
    => /\ Cardinality({c \in ClientIds : cl[c].stream = "open"}) <= 1
       /\ Cardinality({c \in ClientIds : cl[c].sess = "open"}) <= 1
       /\ \A c \in ClientIds : cl[c].stream = "open" => asst.client = c

\* C7: when the agent runtime raises during a turn, an error text is shown
\* and the loop goes on: the command-line loop is back at its prompt, the
\* gradio handler has returned the error text.
C7_FailedTurnContinues ==
    [][\A p \in Procs :
          /\ (pr[p].kind = "main" /\ pr[p].turn = "running" /\ pr'[p].turn = "raised")
                => (pr'[p].pc = "prompt" /\ pr'[p].text \in ErrorTexts)
          /\ (pr[p].kind = "chat" /\ pr[p].turn = "running" /\ pr'[p].kind = "idle"
                /\ obs'.last.turn = "raised")
                => obs'.last.text \in ErrorTexts]_vars

\* C8: a failed initial connection does not crash the entry point: main does
\* not end by the exception, connect_handler returns an error text.
C8_ConnectFailureReported ==
    /\ \A p \in Mains :
          (pr[p].mine # NoClient /\ cl[pr[p].mine].sse = "raised") => pr[p].pc # "crashed"
    /\ (obs.last.kind = "connect" /\ obs.last.mine # NoClient
           /\ cl[obs.last.mine].sse = "raised")
          => obs.last.text \in ErrorTexts

\* C9: (command line) after the user entered quit (and nothing failed), main
\* ends without error and the connection opened during the run is closed: the
\* MCPClient's stream and session in agno, the McpToolset's connection in adk.
C9_QuitClosesConnection ==
    \A p \in Mains :
        (pr[p].quit /\ faults = 0 /\ Ended(p))
        => /\ pr[p].pc = "done"
           /\ variant = "agno" => ~Open(pr[p].mine)
           /\ variant = "adk" => adk.toolset # "open"

\* C10: whenever cleanup calls the stream context's close on a client whose
\* session was opened, the session context's close was called before it.
C10_SessionClosedBeforeStream ==
    \A c \in ClientIds :
        \A i \in 1 .. Len(cl[c].log) :
            (cl[c].log[i].what = "stream" /\ cl[c].log[i].sessOpened)
                => \E j \in 1 .. (i - 1) : cl[c].log[j].what = "session"

\* C10 witness: a stream close was called on a client whose session was open.
C10_Witness ==
    \E c \in ClientIds :
        \E i \in 1 .. Len(cl[c].log) : cl[c].log[i].what = "stream" /\ cl[c].log[i].sessOpened

\* C11: a request that the provider never answers does not wait without
\* limit: no coroutine is ever left at an await that nothing will complete
\* (a timeout outcome would end the wait and be reported as text).
C11_NoAnswerTimesOut ==
    \A p \in Procs : ~pr[p].hung

\* C12: within one user turn at most ToolCallLimit tool-call requests are
\* forwarded to the provider (a further request is refused), in every variant.
C12_ToolCallCeiling ==
    \A p \in Procs : pr[p].calls <= ToolCallLimit

\* C13: the URL main builds is http://<host>:<port>/sse where host and port
\* are the flag's value whenever the flag was given (also port 0 and the empty
\* host), otherwise the environment variable's value when it is set, otherwise
\* localhost and 8001.
C13_FlagsTakePrecedence ==
    cfg.url # <<>>
    => LET host == IF cfg.argHost # <<>> THEN cfg.argHost[1]
                   ELSE IF cfg.envHost # <<>> THEN cfg.envHost[1] ELSE "localhost"
           port == IF cfg.argPort # <<>> THEN cfg.argPort[1]
                   ELSE IF cfg.envPort # <<>> THEN ParseInt(cfg.envPort[1]) ELSE 8001
       IN  cfg.url = <<"http://", host, ":", StrOfNat(port), "/sse">>

\* C14: the tools handed to an agent are exactly the tools the protocol
\* session reports: none dropped, none renamed, none added.
C14_ToolsMirrorSession ==
    /\ \A p \in Procs : pr[p].tools # <<>> => AgentTools(pr[p].tools) = SessionTools
    /\ asst.agent # NoClient => AgentTools(asst.tools) = SessionTools

\* C15: (gradio) when ZerodhaAssistant.disconnect(), called in the connected
\* state with no other handler running meanwhile, returns, the assistant is
\* Disconnected: connected is False, client and agent are None and the
\* client's stream is closed; also when a close raised inside cleanup.
C15_DisconnectDisconnects ==
    [][\A p \in Procs :
          (pr[p].kind = "disconnect" /\ pr[p].alone /\ pr'[p].kind = "idle")
              => /\ ~asst'.connected
                 /\ asst'.client = NoClient /\ asst'.agent = NoClient
                 /\ cl'[pr[p].self].stream = "closed"]_vars

\* C16: when, in a cleanup that follows a successful connect, the close of
\* the session raised (the session is still open when cleanup has finished),
\* the stream has nevertheless been closed, exactly once.
C16_StreamClosedWhenSessionCloseFails ==
    \A p \in Procs :
        (/\ pr[p].kind = "api" /\ Len(pr[p].hist) = 2
         /\ pr[p].hist[1] = <<"connect", "returned">>
         /\ pr[p].hist[2] = <<"disconnect", "raised">>
         /\ cl[pr[p].mine].sess = "open")
        => /\ cl[pr[p].mine].stream = "closed"
           /\ cl[pr[p].mine].streamCloses = 1

\* C17: user turns are strictly sequential: at most one agent run (arun /
\* run_async) is in flight at any time, also when chat_handler is triggered
\* again while an earlier chat_handler is still awaiting the agent.
C17_TurnsSequential ==
    Cardinality({p \in Procs : pr[p].turn = "running"}) <= 1

\* C18: (gradio) when a ZerodhaAssistant.connect attempt that ran with no
\* other handler meanwhile fails, the assistant is Disconnected (connected
\* False, client None, agent None) and the text returned is the "Failed to
\* connect: " one; and a connect that follows a failed one is not answered
\* "Already connected!" but makes its attempt with a new MCPClient.
C18_FailedConnectDisconnected ==
    [][\A p \in Procs :
          /\ (pr[p].kind = "connect" /\ pr[p].alone /\ pr'[p].kind = "idle"
                 /\ obs'.last.text # ConnectedOk)
                => /\ ~asst'.connected
                   /\ asst'.client = NoClient /\ asst'.agent = NoClient
                   /\ obs'.last.text = FailedToConnect
          /\ (pr[p].kind = "idle" /\ pr'[p].kind = "connect"
                 /\ obs.last.kind = "connect" /\ obs.last.alone
                 /\ obs.last.text \in {FailedToConnect, ConnectionErrorText}
                 /\ \A q \in Procs : pr[q].kind = "idle")
                => /\ ~cl[pr'[p].mine].made
                   /\ asst'.client = pr'[p].mine]_vars

\* C19: (gradio) ZerodhaAssistant.disconnect() called when not connected
\* returns "Not connected!" at once, calls no close on any stream or session
\* and leaves client, agent and connected as they were; and a disconnect that
\* ran with no other handler meanwhile and returned "Disconnected
\* successfully!", no awaited call having failed, has closed the stream
\* exactly once, so that two disconnect calls in a row close it exactly once.
C19_DisconnectIdempotent ==
    [][/\ (/\ ~asst.connected
           /\ obs'.last.kind = "disconnect" /\ obs'.last # obs.last
           /\ \A q \in Procs : pr[q].kind = "disconnect" => pr'[q].kind = "disconnect")
          => (obs'.last.text = NotConnected /\ asst' = asst /\ cl' = cl)
       /\ \A p \in Procs :
            (pr[p].kind = "disconnect" /\ pr[p].alone /\ pr'[p].kind = "idle"
               /\ obs'.last.text = DisconnectedOk /\ faults' = 0)
              => cl'[pr[p].self].streamCloses = 1]_vars

\* C19 witness: after a connection was closed by a disconnect (stream closed
\* once, assistant not connected), a further disconnect returned "Not
\* connected!".
C19_Witness ==
    /\ obs.last.kind = "disconnect" /\ obs.last.text = NotConnected
    /\ ~asst.connected /\ asst.client = NoClient
    /\ \E c \in ClientIds : cl[c].sse = "returned" /\ cl[c].stream = "closed"
                             /\ cl[c].streamCloses = 1

\* C20: (gradio) in every reachable state, if the assistant's connected flag
\* is True then its client and agent are set, the client's session is set,
\* has completed initialize() and has not been closed, and the agent's tools
\* are bound to that same session.  Stated for the states reached without
\* any two handlers overlapping and without any failure, where it already fails.
C20_ConnectedMeansReady ==
    (/\ variant = "gradio" /\ driver = "app" /\ asst.connected
     /\ faults = 0 /\ obs.last.alone /\ \A p \in Procs : pr[p].alone)
    => /\ asst.client # NoClient
       /\ asst.agent # NoClient
       /\ cl[asst.client].session = "set"
       /\ cl[asst.client].init
       /\ cl[asst.client].sess = "open"
       /\ asst.agent = asst.client

\* C21: cleanup calls a close (__aexit__) only on a context whose open
\* (__aenter__) completed: a stream that was never opened has no close called
\* on its context, and a session that was never entered has none on its own.
C21_ClosesOnlyWhatWasOpened ==
    \A c \in ClientIds :
        /\ cl[c].stream = "none" => cl[c].streamCloses = 0
        /\ cl[c].sess = "none" => cl[c].sessCloses = 0

\* C22: (gradio) ZerodhaAssistant.connect() called while connected is True
\* returns "Already connected!" at once and changes nothing: no connect
\* attempt is started, no MCPClient is created, no stream is opened, and
\* client, agent and every session are left as they were.
C22_ConnectWhileConnected ==
    [][/\ (/\ asst.connected
           /\ obs'.last.kind = "connect" /\ obs'.last # obs.last
           /\ obs'.last.text # InvalidPort
           /\ \A q \in Procs : pr[q].kind = "connect" => pr'[q].kind = "connect")
          => (obs'.last.text = AlreadyConnected /\ asst' = asst /\ cl' = cl)
       /\ \A p \in Procs :
            (pr[p].kind = "idle" /\ pr'[p].kind = "connect") => ~asst.connected]_vars

\* C22 witness: a connect returned "Already connected!" and the assistant is
\* connected, its client's connection Ready for the next chat.
C22_Witness ==
    /\ obs.last.kind = "connect" /\ obs.last.text = AlreadyConnected
    /\ asst.connected /\ asst.client # NoClient /\ asst.agent = asst.client
    /\ Ready(cl[asst.client])

====
